---- MODULE Spec2Model ----
(***************************************************************************)
(* Position accounting of the trading journal: the synchronization driver  *)
(* (main.py: get_account_operations, record_operations), the accounting    *)
(* engine (tables.py: Operation.add_operation, Position.update,            *)
(* Position.get_related_position), the fee attacher (Operation.add_fee)    *)
(* the asset directory (Asset.populate_assets), the money normalizer       *)
(* (utils.py: extract_money_amount) and the deletion of a position         *)
(* (ui.py: deletePosition).                                                *)
(*                                                                         *)
(* Money is held in hundredths (cents): a Python float rounded to 2        *)
(* decimals is the integer number of cents.  What is rounded is the double *)
(* the code computes, operation by operation (section Doubles), and        *)
(* round(x, 2) takes the exact value of that double to the nearest cent,   *)
(* to the even one on a tie.  Where the error of the double is smaller     *)
(* than the distance of the exact value from the nearest half-cent, the    *)
(* same cent is computed from the exact value.                             *)
(***************************************************************************)
EXTENDS Integers, Sequences, FiniteSets

VARIABLES
    source,      \* the broker's operation history (external), in arrival order
    db,          \* the committed store: positions, payments, assets
    sess,        \* the store as seen by the open Session of the running pass
    pc,          \* "idle" | "syncing" | "engine"
    batch,       \* operations_response of the running pass (sorted by date)
    idx,         \* position of the for-loop of record_operations in batch
    tickers,     \* the local figi -> ticker mapping of record_operations
    last_trade_id,    \* id skipped by the pass (0 when the store is empty)
    operations_count, \* counter of the running pass
    outcome,     \* how the last pass ended, and what it returned
    passes,      \* number of passes started so far
    fetch,       \* the locals of a running get_account_operations call
    stocks       \* stocks_available of the last populate_assets call

vars == <<source, db, sess, pc, batch, idx, tickers, last_trade_id,
          operations_count, outcome, passes, fetch, stocks>>

----------------------------------------------------------------------------
(* Bounds *)

MaxSource == 3      \* records the broker emits
MaxPasses == 2      \* synchronization passes
MaxDate == 2        \* timestamps of the broker's records
MaxLegs == 6        \* operations fed to the engine in EngineSpec
MaxSideLegs == 3    \* operations per side of one position in EngineSpec
MaxNow == 4         \* latest day of a fetch window in FetchSpec
MaxInterval == 3    \* largest batch_interval (days) in FetchSpec
MaxFetched == 2     \* records of the broker in FetchSpec
MaxStocks == 3      \* instruments in one populate_assets call in AssetSpec

(* Value sets of the inputs *)

Figis == {"F1", "F2"}
ShareFigis == {"F1"}          \* what client.instruments.shares() lists
\* instruments of AssetSpec; F3 is a second instrument with the ticker of F2
AssetFigis == {"F1", "F2", "F3"}
Quantities == {1, 2}
PriceUnits == {100}
FeeUnits == {-3, -5}
EngineQuantities == {2, 3, 4}
EnginePriceUnits == {100, 120}
\* MoneyValue pairs; the nanos 5000000, 25000000, 155000000, 375000000 and
\* -5000000 are exact half-cents
MoneyUnits == -3..10
MoneyNanos == {0, 250000000, 500000000, 994000000, 996000000, 4000000,
               6000000, 999999999, -250000000, -500000000, -996000000,
               5000000, 25000000, 155000000, 375000000, -5000000}
\* units where the double units + nano * 0.000000001 is coarser than a nano
MoneyLargeUnits == {16777216, -16777216, 21474835}
MoneyLargeNanos == {14999999, -14999999, 15000001}
\* a money value may also be given as a Python float, [float |-> n] being
\* the float n * 0.000000001 (0.005, -0.5, 1.25)
MoneyFloats == {5000000, -500000000, 1250000000}
MoneyInputs ==
    {[units |-> u, nano |-> n] : u \in MoneyUnits, n \in MoneyNanos}
        \cup {[units |-> u, nano |-> n] :
                 u \in MoneyLargeUnits, n \in MoneyLargeNanos}
        \cup {[float |-> n] : n \in MoneyFloats}
\* the free-text type of the broker's records that are no trade and no fee
PaymentTexts == {"Dividends", "Coupons"}

NoTicker == "None"
TickerOf(figi) == IF figi = "F1" THEN "T1" ELSE "T2"
CurrencyOf(figi) == IF figi = "F1" THEN "rub" ELSE "usd"

EXECUTED_OPERATION == "EXECUTED"

----------------------------------------------------------------------------
(* Arithmetic helpers *)

Max(S) == CHOOSE x \in S : \A y \in S : y <= x

FloorDiv(n, d) == n \div d     \* d > 0; TLA+ \div rounds toward -infinity

\* round(n / d) to the nearest integer, ties to even (Python's round), d > 0
RoundDiv(n, d) ==
    LET q == FloorDiv(n, d)
        r == n - q * d
    IN  IF 2 * r > d THEN q + 1
        ELSE IF 2 * r < d THEN q
        ELSE IF q % 2 = 0 THEN q ELSE q + 1

\* n / d lies in the middle between two integers
IsTie(n, d) == 2 * (n - FloorDiv(n, d) * d) = d

----------------------------------------------------------------------------
(* Doubles.  A Python float is held as [m, e], the value m * 2^e with m a  *)
(* natural number of exactly 53 bits (or zero), m written in digits of     *)
(* base 2^14, lowest digit first.  Every operation computes the exact      *)
(* result and rounds it to 53 bits, ties to even, as IEEE 754 does.        *)

Base == 16384

RECURSIVE Digits(_)
Digits(n) == IF n = 0 THEN <<>> ELSE <<n % Base>> \o Digits(n \div Base)

RECURSIVE Strip(_)
Strip(a) ==
    IF a = <<>> \/ a[Len(a)] # 0 THEN a
    ELSE Strip(SubSeq(a, 1, Len(a) - 1))

Digit(a, i) == IF i <= Len(a) THEN a[i] ELSE 0

RECURSIVE AddCarry(_, _, _, _)
AddCarry(a, b, i, carry) ==
    IF i > Len(a) /\ i > Len(b) THEN Digits(carry)
    ELSE LET s == Digit(a, i) + Digit(b, i) + carry
         IN  <<s % Base>> \o AddCarry(a, b, i + 1, s \div Base)

BigAdd(a, b) == AddCarry(a, b, 1, 0)

RECURSIVE SubBorrow(_, _, _, _)
SubBorrow(a, b, i, borrow) ==
    IF i > Len(a) THEN <<>>
    ELSE LET s == Digit(a, i) - Digit(b, i) - borrow
         IN  <<s % Base>> \o SubBorrow(a, b, i + 1, IF s < 0 THEN 1 ELSE 0)

\* a - b for a >= b
BigSub(a, b) == Strip(SubBorrow(a, b, 1, 0))

RECURSIVE MulCarry(_, _, _, _)
MulCarry(a, k, i, carry) ==
    IF i > Len(a) THEN Digits(carry)
    ELSE LET s == a[i] * k + carry
         IN  <<s % Base>> \o MulCarry(a, k, i + 1, s \div Base)

Zeros(n) == [i \in 1..n |-> 0]

RECURSIVE MulFrom(_, _, _)
MulFrom(a, b, i) ==
    IF i > Len(b) THEN <<>>
    ELSE BigAdd(Zeros(i - 1) \o MulCarry(a, b[i], 1, 0), MulFrom(a, b, i + 1))

BigMul(a, b) == Strip(MulFrom(a, b, 1))

\* quotient and remainder of a by k, 0 < k < 2^16
RECURSIVE DivFrom(_, _, _, _)
DivFrom(a, k, i, r) ==
    IF i = 0 THEN [q |-> <<>>, r |-> r]
    ELSE [DivFrom(a, k, i - 1, (r * Base + a[i]) % k)
            EXCEPT !.q = Append(@, (r * Base + a[i]) \div k)]

Stripped(qr) == [q |-> Strip(qr.q), r |-> qr.r]

BigDiv(a, k) == Stripped(DivFrom(a, k, Len(a), 0))

RECURSIVE CmpFrom(_, _, _)
CmpFrom(a, b, i) ==
    IF i = 0 THEN 0
    ELSE IF a[i] > b[i] THEN 1
    ELSE IF a[i] < b[i] THEN -1
    ELSE CmpFrom(a, b, i - 1)

\* -1, 0, 1 as a < b, a = b, a > b
BigCmp(a, b) ==
    IF Len(a) > Len(b) THEN 1
    ELSE IF Len(a) < Len(b) THEN -1
    ELSE CmpFrom(a, b, Len(a))

RECURSIVE SmallBitLen(_)
SmallBitLen(n) == IF n = 0 THEN 0 ELSE 1 + SmallBitLen(n \div 2)

BitLen(a) ==
    IF a = <<>> THEN 0 ELSE (Len(a) - 1) * 14 + SmallBitLen(a[Len(a)])

ShiftLeft(a, k) ==
    IF a = <<>> THEN <<>>
    ELSE Zeros(k \div 14) \o MulCarry(a, 2 ^ (k % 14), 1, 0)

ShiftRight(a, k) ==
    IF k \div 14 >= Len(a) THEN <<>>
    ELSE BigDiv(SubSeq(a, k \div 14 + 1, Len(a)), 2 ^ (k % 14)).q

\* the double nearest to a * 2^e, or to a value just above it (sticky):
\* the 53 leading bits q of a, one more when the bits cut off are above
\* the half, or are the half and sticky or q is odd
Renormalized(m, e) ==
    IF BitLen(m) = 54 THEN [m |-> ShiftRight(m, 1), e |-> e + 1]
    ELSE [m |-> m, e |-> e]

RoundsUp(c, sticky, q) == c = 1 \/ (c = 0 /\ (sticky \/ q[1] % 2 = 1))

RoundedUp(q, up, e) == Renormalized(IF up THEN BigAdd(q, <<1>>) ELSE q, e)

CutTo(a, k, q, e, sticky) ==
    RoundedUp(q,
              RoundsUp(BigCmp(BigSub(a, ShiftLeft(q, k)),
                              ShiftLeft(<<1>>, k - 1)), sticky, q),
              e)

RoundToBits(a, k, e, sticky) ==
    IF k <= 0 THEN [m |-> ShiftLeft(a, -k), e |-> e + k]
    ELSE CutTo(a, k, ShiftRight(a, k), e + k, sticky)

RoundTo53(a, e, sticky) ==
    IF a = <<>> THEN [m |-> <<>>, e |-> 0]
    ELSE RoundToBits(a, BitLen(a) - 53, e, sticky)

\* float(n) for an int 0 <= n < 2^31
FloatOf(n) == RoundTo53(Digits(n), 0, FALSE)

\* n / d of two ints, n >= 0, 0 < d < 2^16
Quotient(qr) == RoundTo53(qr.q, -70, qr.r # 0)

FloatDiv(n, d) == Quotient(BigDiv(ShiftLeft(Digits(n), 70), d))

FloatMul(x, y) == RoundTo53(BigMul(x.m, y.m), x.e + y.e, FALSE)

Min(a, b) == IF a < b THEN a ELSE b

AddAt(x, y, e) ==
    RoundTo53(BigAdd(ShiftLeft(x.m, x.e - e), ShiftLeft(y.m, y.e - e)),
              e, FALSE)

FloatAdd(x, y) ==
    IF x.m = <<>> THEN y
    ELSE IF y.m = <<>> THEN x
    ELSE AddAt(x, y, Min(x.e, y.e))

\* x - y for x >= y >= 0
SubAt(x, y, e) ==
    RoundTo53(BigSub(ShiftLeft(x.m, x.e - e), ShiftLeft(y.m, y.e - e)),
              e, FALSE)

FloatSub(x, y) == IF y.m = <<>> THEN x ELSE SubAt(x, y, Min(x.e, y.e))

\* the int written by the digits a
RECURSIVE IntOf(_)
IntOf(a) == IF a = <<>> THEN 0 ELSE a[1] + Base * IntOf(Tail(a))

\* round(x, 2) in cents for a double x >= 0: Python rounds the exact value
\* of the double, n * 2^e hundredths, to the nearest cent and to the even
\* cent when it lies in the middle
CentsUp(q, c) ==
    IntOf(q) + (IF c = 1 \/ (c = 0 /\ Digit(q, 1) % 2 = 1) THEN 1 ELSE 0)

CentsCut(n, k, q) ==
    CentsUp(q, BigCmp(BigSub(n, ShiftLeft(q, k)), ShiftLeft(<<1>>, k - 1)))

CentsOf(n, e) ==
    IF e >= 0 THEN IntOf(ShiftLeft(n, e))
    ELSE CentsCut(n, -e, ShiftRight(n, -e))

Round2(x) == CentsOf(BigMul(x.m, <<100>>), x.e)

Abs(n) == IF n < 0 THEN -n ELSE n

\* the literal 0.000000001: 0x1.12e0be826d695p-30
ONE_NANO == [m |-> <<5781, 8347, 8382, 1099>>, e |-> -82]

\* the size of the double units + nano * 0.000000001, product the size of
\* nano * 0.000000001 and whole the size of units (|nano| < 10^9)
MoneySum(units, nano, whole, product) ==
    IF units = 0 THEN product
    ELSE IF (units > 0) = (nano > 0) THEN FloatAdd(whole, product)
    ELSE FloatSub(whole, product)

Signed(negative, cents) == IF negative THEN -cents ELSE cents

\* round(units + nano * 0.000000001, 2) in cents, on the double
RoundMoneyDouble(units, nano) ==
    Signed(units < 0 \/ (units = 0 /\ nano < 0),
           Round2(MoneySum(units, nano, FloatOf(Abs(units)),
                           FloatMul(FloatOf(Abs(nano)), ONE_NANO))))

\* below 2^22 units the double is within 2^-31 + 2^-52 < 0.000000001 of
\* units + nano / 10^9, and that value, when it is no half-cent, is at
\* least 0.000000001 away from one: both round to the same cent
ExactMoney(units, nano) ==
    /\ ~IsTie(nano, 10000000)
    /\ Abs(units) < 4194304

\* round(units + nano * 0.000000001, 2) in cents
RoundMoney(units, nano) ==
    IF ExactMoney(units, nano) THEN units * 100 + RoundDiv(nano, 10000000)
    ELSE RoundMoneyDouble(units, nano)

\* round(old * (existing / same) + price * (quantity / same), 2) in cents,
\* old and price in cents, computed as Position.update computes it
RoundAverageDouble(old, existing, price, quantity, same) ==
    Round2(FloatAdd(FloatMul(FloatDiv(old, 100), FloatDiv(existing, same)),
                    FloatMul(FloatDiv(price, 100),
                             FloatDiv(quantity, same))))

\* the seven roundings of the double add up to less than 2^-50 of the
\* value n / (100 * same), n = old * existing + price * quantity < 2^31;
\* n / same, when it is no half-cent, is at least 1 / (2 * same) of a cent
\* away from one: both round to the same cent
RoundAverage(old, existing, price, quantity, same) ==
    IF IsTie(old * existing + price * quantity, same)
    THEN RoundAverageDouble(old, existing, price, quantity, same)
    ELSE RoundDiv(old * existing + price * quantity, same)

----------------------------------------------------------------------------
(* Money *)

Money(units) == [units |-> units, nano |-> 0]

\* extract_money_amount with the nano part given the sign of the units
extract_money_amount_signed(moneyObj) ==
    IF "float" \in DOMAIN moneyObj THEN moneyObj
    ELSE moneyObj.units * 100
           + (IF moneyObj.units < 0 /\ moneyObj.nano > 0
              THEN -RoundDiv(moneyObj.nano, 10000000)
              ELSE RoundDiv(moneyObj.nano, 10000000))

\* utils.extract_money_amount: a float is returned as it is, not rounded;
\* a MoneyValue gives round(units + nano * 0.000000001, 2), in cents
extract_money_amount(moneyObj) ==
    IF "float" \in DOMAIN moneyObj THEN moneyObj
    ELSE RoundMoney(moneyObj.units, moneyObj.nano)

\* sum([operation.quantity for operation in ops if operation.side == side])
RECURSIVE SelectQty(_, _)
SelectQty(ops, side) ==
    IF ops = <<>> THEN 0
    ELSE (IF Head(ops).side = side THEN Head(ops).quantity ELSE 0)
         + SelectQty(Tail(ops), side)

----------------------------------------------------------------------------
(* The store *)

\* positions hold their operations (Operation.position_id); orphans are the
\* rows of the operation table whose position row is gone
\* pending: the session holds an Operation whose id is already a row; the
\* next flush sends its INSERT
EmptyStore ==
    [positions |-> <<>>, payments |-> <<>>, assets |-> <<>>, orphans |-> {},
     pending |-> FALSE]

\* no get_account_operations call is running
NoFetch ==
    [since |-> 0, from_date |-> 0, to_date |-> 0, batch_end_date |-> 0,
     batch_interval |-> 0, operations |-> <<>>, requests |-> <<>>]

PositionIds(st) == DOMAIN st.positions

OwnedOperations(st) ==
    UNION {{st.positions[p].operations[i] :
              i \in 1..Len(st.positions[p].operations)} : p \in PositionIds(st)}

\* the rows of the operation table
AllOperations(st) == OwnedOperations(st) \cup st.orphans

OperationIds(st) == {o.id : o \in AllOperations(st)}

\* what a flush writes and a later Session reads: Operation.fee is a class
\* attribute under a Mapped annotation, not a column (tables.py line 144),
\* so the fee add_fee sets lives on the Python object of the pass only and
\* an Operation that is read back has fee 0
Persisted(st) ==
    [st EXCEPT
        !.positions =
            [p \in PositionIds(st) |->
                [st.positions[p] EXCEPT !.operations =
                    [i \in 1..Len(st.positions[p].operations) |->
                        [st.positions[p].operations[i] EXCEPT !.fee = 0]]]],
        !.orphans = {[o EXCEPT !.fee = 0] : o \in @}]

\* Position.get_operations_quantity
get_operations_quantity(position, side) == SelectQty(position.operations, side)

OppositeSide(side) == IF side = "Buy" THEN "Sell" ELSE "Buy"

----------------------------------------------------------------------------
(* Position accounting engine (tables.py) *)

\* Position(...) built with the side fixed to "Buy"
NewPosition_long_only(operation) ==
    [ticker |-> operation.ticker,
     side |-> "Buy",
     currency |-> operation.currency,
     open_price |-> 0,
     closing_price |-> 0,
     closed |-> FALSE,
     fee |-> 0,
     result |-> 0,
     operations |-> <<>>]

\* Position(...) as built by get_related_position; the column defaults
\* (closing_price, closed, fee) are filled in by the INSERT of the flush that
\* precedes every later read of the row.
NewPosition(operation) ==
    [ticker |-> operation.ticker,
     side |-> operation.operation_type,
     currency |-> operation.currency,
     open_price |-> 0,
     closing_price |-> 0,
     closed |-> FALSE,
     fee |-> 0,
     result |-> 0,
     operations |-> <<>>]

OpenPositionIds(st, ticker) ==
    {p \in PositionIds(st) :
        ~st.positions[p].closed /\ st.positions[p].ticker = ticker}

\* the row id SQLite gives the next inserted position
NextPositionId(st) ==
    IF PositionIds(st) = {} THEN 1 ELSE Max(PositionIds(st)) + 1

\* get_related_position without the lookup of the open position
get_related_position_always_new(st, operation) == NextPositionId(st)

\* get_related_position with the filter on closed left out
get_related_position_any_state(st, operation) ==
    LET same == {p \in PositionIds(st) :
                    st.positions[p].ticker = operation.ticker}
    IN  IF same # {}
        THEN CHOOSE p \in same : \A q \in same : p <= q
        ELSE NextPositionId(st)

\* Position.get_related_position: the id of the open position of the
\* operation's ticker (the first row of the query), or the id of a new one
get_related_position(st, operation) ==
    LET open == OpenPositionIds(st, operation.ticker)
    IN  IF open # {}
        THEN CHOOSE p \in open : \A q \in open : p <= q
        ELSE NextPositionId(st)

\* Position.update with the result assigned instead of accumulated
update_overwrites_result(self, operation, payment) ==
    LET same == get_operations_quantity(self, operation.side)
        existing == same - operation.quantity
        withResult == [self EXCEPT !.result = payment]
    IN  IF self.side = operation.side
        THEN [withResult EXCEPT !.open_price =
                RoundAverage(self.open_price, existing,
                             operation.price, operation.quantity, same)]
        ELSE [withResult EXCEPT
                !.closing_price =
                    RoundAverage(self.closing_price, existing,
                                 operation.price, operation.quantity, same),
                !.closed =
                    IF same = get_operations_quantity(
                                  self, OppositeSide(operation.side))
                    THEN TRUE ELSE @]

\* Position.update, on the position the operation was appended to
update(self, operation, payment) ==
    LET same_side_position_quantity ==
            get_operations_quantity(self, operation.side)
        existing == same_side_position_quantity - operation.quantity
        opposite_side_position_quantity ==
            get_operations_quantity(self, OppositeSide(operation.side))
        withResult == [self EXCEPT !.result = @ + payment]
    IN  IF self.side = operation.side
        THEN [withResult EXCEPT !.open_price =
                RoundAverage(self.open_price, existing,
                             operation.price, operation.quantity,
                             same_side_position_quantity)]
        ELSE [withResult EXCEPT
                !.closing_price =
                    RoundAverage(self.closing_price, existing,
                                 operation.price, operation.quantity,
                                 same_side_position_quantity),
                !.closed =
                    IF same_side_position_quantity
                         = opposite_side_position_quantity
                    THEN TRUE ELSE @]

\* the Operation row built by add_operation
OperationEntry(operation) ==
    [id |-> operation.id,
     ticker |-> operation.ticker,
     side |-> operation.operation_type,
     time |-> operation.date,
     quantity |-> operation.quantity,
     price |-> extract_money_amount(operation.price),
     fee |-> 0]

\* add_operation with the payment added to the result of every position of
\* the operation's ticker
add_operation_credits_ticker(st, operation) ==
    LET pid == get_related_position(st, operation)
        position == IF pid \in PositionIds(st)
                    THEN st.positions[pid] ELSE NewPosition(operation)
        operation_entry == OperationEntry(operation)
        appended == [position EXCEPT
                        !.operations = Append(@, operation_entry)]
        updated == update(appended, operation_entry,
                          extract_money_amount(operation.payment))
    IN  [st EXCEPT !.positions =
            [p \in PositionIds(st) \cup {pid} |->
                IF p = pid THEN updated
                ELSE IF st.positions[p].ticker = operation.ticker
                THEN [st.positions[p] EXCEPT !.result =
                        @ + extract_money_amount(operation.payment)]
                ELSE st.positions[p]]]

\* Operation.add_operation: the store after the operation is recorded
add_operation(st, operation) ==
    LET pid == get_related_position(st, operation)
        position == IF pid \in PositionIds(st)
                    THEN st.positions[pid] ELSE NewPosition(operation)
        operation_entry == OperationEntry(operation)
        appended == [position EXCEPT
                        !.operations = Append(@, operation_entry)]
        updated == update(appended, operation_entry,
                          extract_money_amount(operation.payment))
    IN  [st EXCEPT !.positions =
            [p \in PositionIds(st) \cup {pid} |->
                IF p = pid THEN updated ELSE st.positions[p]]]

\* add_fee with the fee also taken out of the position's result
add_fee_charges_result(st, parent_id, api_operation) ==
    LET fee == extract_money_amount(api_operation.payment)
    IN  [st EXCEPT !.positions =
            [p \in PositionIds(st) |->
                LET pos == st.positions[p]
                    owns == \E i \in 1..Len(pos.operations) :
                                pos.operations[i].id = parent_id
                IN  IF ~owns THEN pos
                    ELSE [pos EXCEPT
                            !.fee = @ + fee,
                            !.result = @ + fee,
                            !.operations =
                                [i \in 1..Len(pos.operations) |->
                                    IF pos.operations[i].id = parent_id
                                    THEN [pos.operations[i] EXCEPT !.fee = fee]
                                    ELSE pos.operations[i]]]]]

\* add_fee with the fee set on every operation of the parent's position
add_fee_whole_position(st, parent_id, api_operation) ==
    LET fee == extract_money_amount(api_operation.payment)
    IN  [st EXCEPT !.positions =
            [p \in PositionIds(st) |->
                LET pos == st.positions[p]
                    owns == \E i \in 1..Len(pos.operations) :
                                pos.operations[i].id = parent_id
                IN  IF ~owns THEN pos
                    ELSE [pos EXCEPT
                            !.fee = @ + fee,
                            !.operations =
                                [i \in 1..Len(pos.operations) |->
                                    [pos.operations[i] EXCEPT !.fee = fee]]]]]

\* add_fee with the fee added to the operation's fee
add_fee_accumulates(st, parent_id, api_operation) ==
    LET fee == extract_money_amount(api_operation.payment)
    IN  [st EXCEPT !.positions =
            [p \in PositionIds(st) |->
                LET pos == st.positions[p]
                    owns == \E i \in 1..Len(pos.operations) :
                                pos.operations[i].id = parent_id
                IN  IF ~owns THEN pos
                    ELSE [pos EXCEPT
                            !.fee = @ + fee,
                            !.operations =
                                [i \in 1..Len(pos.operations) |->
                                    IF pos.operations[i].id = parent_id
                                    THEN [pos.operations[i] EXCEPT
                                            !.fee = @ + fee]
                                    ELSE pos.operations[i]]]]]

\* add_fee without the increment of the position's fee
add_fee_operation_only(st, parent_id, api_operation) ==
    LET fee == extract_money_amount(api_operation.payment)
    IN  [st EXCEPT !.positions =
            [p \in PositionIds(st) |->
                [st.positions[p] EXCEPT !.operations =
                    [i \in 1..Len(st.positions[p].operations) |->
                        IF st.positions[p].operations[i].id = parent_id
                        THEN [st.positions[p].operations[i] EXCEPT !.fee = fee]
                        ELSE st.positions[p].operations[i]]]]]

\* Operation.add_fee on the recorded operation with the given id
add_fee(st, parent_id, api_operation) ==
    LET fee == extract_money_amount(api_operation.payment)
    IN  [st EXCEPT !.positions =
            [p \in PositionIds(st) |->
                LET pos == st.positions[p]
                    owns == \E i \in 1..Len(pos.operations) :
                                pos.operations[i].id = parent_id
                IN  IF ~owns THEN pos
                    ELSE [pos EXCEPT
                            !.fee = @ + fee,
                            !.operations =
                                [i \in 1..Len(pos.operations) |->
                                    IF pos.operations[i].id = parent_id
                                    THEN [pos.operations[i] EXCEPT !.fee = fee]
                                    ELSE pos.operations[i]]]]]

----------------------------------------------------------------------------
(* The broker's records (tinkoff.invest.schemas.Operation) *)

\* main.OPERATION_TYPES.get(operation_type); "None" stands for None
OPERATION_TYPES(operation_type) ==
    CASE operation_type = "OPERATION_TYPE_BUY" -> "Buy"
      [] operation_type = "OPERATION_TYPE_SELL" -> "Sell"
      [] operation_type = "OPERATION_TYPE_BROKER_FEE" -> "Fee"
      [] OTHER -> "None"

TradePayment(operation_type, quantity, units) ==
    IF operation_type = "OPERATION_TYPE_BUY"
    THEN Money(-(quantity * units)) ELSE Money(quantity * units)

SdkTrade(id, operation_type, figi, date, quantity, units, state) ==
    [id |-> id, state |-> state, operation_type |-> operation_type,
     figi |-> figi, date |-> date, quantity |-> quantity,
     price |-> Money(units),
     payment |-> TradePayment(operation_type, quantity, units),
     parent_operation_id |-> 0, currency |-> CurrencyOf(figi),
     type |-> "Trade"]

SdkFee(id, date, parent, units) ==
    [id |-> id, state |-> EXECUTED_OPERATION,
     operation_type |-> "OPERATION_TYPE_BROKER_FEE",
     figi |-> "F1", date |-> date, quantity |-> 0,
     price |-> Money(0), payment |-> Money(units),
     parent_operation_id |-> parent, currency |-> CurrencyOf("F1"),
     type |-> "Broker fee"]

SdkOther(id, date) ==
    [id |-> id, state |-> EXECUTED_OPERATION,
     operation_type |-> "OPERATION_TYPE_DIVIDEND",
     figi |-> "F1", date |-> date, quantity |-> 0,
     price |-> Money(0), payment |-> Money(7),
     parent_operation_id |-> 0, currency |-> CurrencyOf("F1"),
     type |-> "Dividends"]

\* the record as record_operations rewrites it (main.py lines 112-113)
Classified(operation, ticker) ==
    [id |-> operation.id, date |-> operation.date,
     operation_type |-> OPERATION_TYPES(operation.operation_type),
     ticker |-> ticker, quantity |-> operation.quantity,
     price |-> operation.price, payment |-> operation.payment,
     currency |-> operation.currency]

----------------------------------------------------------------------------
(* EngineSpec: Operation.add_operation applied to a stream of Buy/Sell      *)
(* operations of one ticker, each committed.                                *)

EngineOps ==
    {SdkTrade(Cardinality(AllOperations(db)) + 1, t, "F1",
              Cardinality(AllOperations(db)) + 1, q, u, EXECUTED_OPERATION) :
        t \in {"OPERATION_TYPE_BUY", "OPERATION_TYPE_SELL"},
        q \in EngineQuantities, u \in EnginePriceUnits}

\* legs the operation's side already has in the open position of its ticker
SideLegs(st, operation) ==
    LET open == OpenPositionIds(st, operation.ticker)
    IN  IF open = {} THEN 0
        ELSE Cardinality({i \in 1..Len(st.positions[
                                CHOOSE p \in open : TRUE].operations) :
                st.positions[CHOOSE p \in open : TRUE].operations[i].side
                    = operation.operation_type})

EngineInit ==
    /\ source = <<>>
    /\ db = EmptyStore
    /\ sess = EmptyStore
    /\ pc = "engine"
    /\ batch = <<>>
    /\ idx = 1
    /\ tickers = <<>>
    /\ last_trade_id = 0
    /\ operations_count = 0
    /\ outcome = [status |-> "none", returned |-> 0]
    /\ passes = 0
    /\ fetch = NoFetch
    /\ stocks = <<>>

EngineAdd ==
    /\ pc = "engine"
    /\ Cardinality(AllOperations(db)) < MaxLegs
    /\ \E sdk \in EngineOps :
          LET operation == Classified(sdk, TickerOf(sdk.figi))
          IN  /\ SideLegs(db, operation) < MaxSideLegs
              /\ db' = add_operation(db, operation)
    /\ UNCHANGED <<fetch, stocks, source, sess, pc, batch, idx, tickers,
                   last_trade_id,
                   operations_count, outcome, passes>>

EngineNext == EngineAdd

EngineSpec == EngineInit /\ [][EngineNext]_vars

----------------------------------------------------------------------------
(* MoneySpec: utils.extract_money_amount applied to the payment of one     *)
(* record of the broker.                                                   *)

MoneyInit ==
    /\ source = <<>>
    /\ db = EmptyStore
    /\ sess = EmptyStore
    /\ pc = "money"
    /\ batch \in {<<[SdkOther(1, 1) EXCEPT !.payment = m]>> :
                    m \in MoneyInputs}
    /\ idx = 1
    /\ tickers = <<>>
    /\ last_trade_id = 0
    /\ operations_count = 0
    /\ outcome = [status |-> "none", returned |-> 0]
    /\ passes = 0
    /\ fetch = NoFetch
    /\ stocks = <<>>

MoneyNormalize ==
    /\ pc = "money"
    /\ outcome' = [status |-> "ok",
                   returned |-> extract_money_amount(batch[idx].payment)]
    /\ pc' = "normalized"
    /\ UNCHANGED <<fetch, stocks, source, db, sess, batch, idx, tickers,
                   last_trade_id,
                   operations_count, passes>>

MoneyNext == MoneyNormalize

MoneySpec == MoneyInit /\ [][MoneyNext]_vars

----------------------------------------------------------------------------
(* The broker (external): its history grows while no pass is running; a    *)
(* running pass works on the list it fetched when it started.              *)

\* the record in a state other than OPERATION_STATE_EXECUTED
NotExecuted(sdk) == [sdk EXCEPT !.state = "CANCELED"]

EmitOps ==
    LET id == Len(source) + 1
    IN  UNION {
          {SdkTrade(id, t, f, d, q, u, EXECUTED_OPERATION) :
              t \in {"OPERATION_TYPE_BUY", "OPERATION_TYPE_SELL"},
              f \in Figis, q \in Quantities, u \in PriceUnits}
          \cup {SdkTrade(id, "OPERATION_TYPE_BUY", "F1", d, 1, 100, "CANCELED")}
          \cup {SdkFee(id, d, parent, u) :
                  parent \in (1..MaxSource) \ {id}, u \in FeeUnits}
          \cup {[SdkOther(id, d) EXCEPT !.type = text] :
                  text \in PaymentTexts}
          \cup {NotExecuted(SdkFee(id, d, parent, -3)) :
                  parent \in (1..MaxSource) \ {id}}
          \cup {NotExecuted(SdkOther(id, d))}
          : d \in 1..MaxDate}

BrokerEmit ==
    /\ pc = "idle"
    /\ Len(source) < MaxSource
    /\ \E sdk \in EmitOps : source' = Append(source, sdk)
    /\ UNCHANGED <<fetch, stocks, db, sess, pc, batch, idx, tickers,
                   last_trade_id,
                   operations_count, outcome, passes>>

----------------------------------------------------------------------------
(* Synchronization driver (main.py, ui.py updateTrades) *)

\* sorted(operations, key=lambda obj: obj.date): stable
RECURSIVE InsertByDate(_, _)
InsertByDate(sorted, op) ==
    IF sorted = <<>> THEN <<op>>
    ELSE IF sorted[Len(sorted)].date <= op.date THEN Append(sorted, op)
    ELSE Append(InsertByDate(SubSeq(sorted, 1, Len(sorted) - 1), op),
                sorted[Len(sorted)])

RECURSIVE SortByDate(_)
SortByDate(ops) ==
    IF ops = <<>> THEN <<>>
    ELSE InsertByDate(SortByDate(SubSeq(ops, 1, Len(ops) - 1)), ops[Len(ops)])

\* select(Operation).order_by(Operation.time.desc()): the rows that can come
\* first (the order among equal times is not determined)
LastTrades(st) ==
    {o \in AllOperations(st) : \A o2 \in AllOperations(st) : o2.time <= o.time}

\* getattr(last_trade, "id", 0)
LastTradeIds(st) ==
    IF AllOperations(st) = {} THEN {0} ELSE {o.id : o \in LastTrades(st)}

\* updateTrades: last_trade and last_trade.time; 0 is the account's open date
Since(st) ==
    IF AllOperations(st) = {} THEN 0
    ELSE (CHOOSE o \in LastTrades(st) : TRUE).time

\* get_account_operations returning the list as the broker sent it
get_account_operations_unsorted(from_date) ==
    SelectSeq(source, LAMBDA o : o.date >= from_date)

\* get_account_operations: every record of the window [since, now], by date
get_account_operations(from_date) ==
    SortByDate(SelectSeq(source, LAMBDA o : o.date >= from_date))

\* an instrument as the client returns it
Stock(figi) == [ticker |-> TickerOf(figi), figi |-> figi]

\* client.instruments.shares().instruments
Shares == <<Stock("F1")>>

\* Asset.assets_populated
assets_populated(st) == st.assets # <<>>

\* Asset.get_figi_to_ticker_mapping: a later row of a figi replaces an
\* earlier one in the dict
get_figi_to_ticker_mapping(st) ==
    [f \in {st.assets[i].figi : i \in 1..Len(st.assets)} |->
        st.assets[Max({i \in 1..Len(st.assets) : st.assets[i].figi = f})]
            .ticker]

\* assets_to_add or client.instruments.shares().instruments
stocks_available(assets_to_add) ==
    IF assets_to_add = <<>> THEN Shares ELSE assets_to_add

\* Asset.ticker is the primary key: the INSERT of a row whose ticker is a
\* row of the table, or is twice in the list, raises IntegrityError
PrimaryKeyConflict(st, assets_to_add) ==
    LET stocks_ == stocks_available(assets_to_add)
    IN  \/ \E i \in 1..Len(stocks_), j \in 1..Len(st.assets) :
              stocks_[i].ticker = st.assets[j].ticker
        \/ \E i, j \in 1..Len(stocks_) :
              i # j /\ stocks_[i].ticker = stocks_[j].ticker

\* populate_assets on a table without a primary key
populate_assets_append_only(st, assets_to_add) ==
    [st EXCEPT !.assets = @ \o stocks_available(assets_to_add)]

\* Asset.populate_assets: the rows are added and the session is committed;
\* when the commit raises nothing is added
populate_assets(st, assets_to_add) ==
    IF PrimaryKeyConflict(st, assets_to_add) THEN st
    ELSE [st EXCEPT !.assets = @ \o stocks_available(assets_to_add)]

\* synchronize_operations up to the for-loop of record_operations
StartPass ==
    /\ pc = "idle"
    /\ passes < MaxPasses
    /\ LET populated == IF ~assets_populated(db)
                        THEN populate_assets(db, <<>>) ELSE db
       IN  /\ db' = populated
           /\ sess' = populated
           /\ tickers' = get_figi_to_ticker_mapping(populated)
    /\ batch' = get_account_operations(Since(db))
    /\ \E id \in LastTradeIds(db) : last_trade_id' = id
    /\ idx' = 1
    /\ operations_count' = 0
    /\ pc' = "syncing"
    /\ passes' = passes + 1
    /\ UNCHANGED <<fetch, stocks, source, outcome>>

\* the fetch of the operations (or of the share list) raises RequestError
FetchFails ==
    /\ pc = "idle"
    /\ passes < MaxPasses
    /\ passes' = passes + 1
    /\ outcome' = [status |-> "RequestError", returned |-> 0]
    /\ UNCHANGED <<fetch, stocks, source, db, sess, pc, batch, idx,
                   tickers, last_trade_id,
                   operations_count>>

InLoop == pc = "syncing" /\ idx <= Len(batch)

Current == batch[idx]

\* the loop body without the test of the state
Executed_any_state == InLoop /\ Current.id # last_trade_id

Executed == InLoop /\ Current.state = EXECUTED_OPERATION
                   /\ Current.id # last_trade_id

TickerGet(figi) == IF figi \in DOMAIN tickers THEN tickers[figi] ELSE NoTicker

\* an exception leaves the with-block: the session is closed, what it had
\* not committed is rolled back
Abort(status, committed) ==
    /\ db' = committed
    /\ sess' = committed
    /\ pc' = "idle"
    /\ outcome' = [status |-> status, returned |-> 0]
    /\ UNCHANGED <<fetch, stocks, source, batch, idx, last_trade_id,
                   operations_count,
                   passes>>

\* main.py line 108: not executed
SkipNotExecuted ==
    /\ InLoop
    /\ Current.state # EXECUTED_OPERATION
    /\ idx' = idx + 1
    /\ UNCHANGED <<fetch, stocks, source, db, sess, pc, batch, tickers,
                   last_trade_id,
                   operations_count, outcome, passes>>

\* main.py lines 109-110
SkipLastTrade ==
    /\ InLoop
    /\ Current.state = EXECUTED_OPERATION
    /\ Current.id = last_trade_id
    /\ idx' = idx + 1
    /\ UNCHANGED <<fetch, stocks, source, db, sess, pc, batch, tickers,
                   last_trade_id,
                   operations_count, outcome, passes>>

\* the payment added to the session twice
RecordPayment_twice ==
    /\ pc = "syncing" /\ idx <= Len(batch)
    /\ batch[idx].state = EXECUTED_OPERATION
    /\ batch[idx].id # last_trade_id
    /\ OPERATION_TYPES(batch[idx].operation_type) = "None"
    /\ LET payment ==
              [ticker |-> IF batch[idx].figi \in DOMAIN tickers
                          THEN tickers[batch[idx].figi] ELSE NoTicker,
               description |-> batch[idx].type,
               currency |-> batch[idx].currency,
               payment |-> extract_money_amount(batch[idx].payment)]
       IN  sess' = [sess EXCEPT !.payments = Append(Append(@, payment),
                                                    payment)]
    /\ idx' = idx + 1
    /\ UNCHANGED <<fetch, stocks, source, db, pc, batch, tickers,
                   last_trade_id,
                   operations_count, outcome, passes>>

\* main.py lines 115-122
RecordPayment ==
    /\ Executed
    /\ OPERATION_TYPES(Current.operation_type) = "None"
    /\ sess' = [sess EXCEPT !.payments = Append(@,
                  [ticker |-> TickerGet(Current.figi),
                   description |-> Current.type,
                   currency |-> Current.currency,
                   payment |-> extract_money_amount(Current.payment)])]
    /\ idx' = idx + 1
    /\ UNCHANGED <<fetch, stocks, source, db, pc, batch, tickers,
                   last_trade_id,
                   operations_count, outcome, passes>>

\* the Fee branch counted like a trade
AttachFee_counted ==
    /\ pc = "syncing" /\ idx <= Len(batch)
    /\ ~sess.pending
    /\ batch[idx].state = EXECUTED_OPERATION
    /\ batch[idx].id # last_trade_id
    /\ OPERATION_TYPES(batch[idx].operation_type) = "Fee"
    /\ batch[idx].parent_operation_id \in OperationIds(sess)
    /\ sess' = add_fee(sess, batch[idx].parent_operation_id, batch[idx])
    /\ operations_count' = operations_count + 1
    /\ idx' = idx + 1
    /\ UNCHANGED <<fetch, stocks, source, db, pc, batch, tickers,
                   last_trade_id, outcome,
                   passes>>

\* main.py lines 123-129, the parent is found
AttachFee ==
    /\ Executed
    /\ ~sess.pending
    /\ OPERATION_TYPES(Current.operation_type) = "Fee"
    /\ Current.parent_operation_id \in OperationIds(sess)
    /\ sess' = add_fee(sess, Current.parent_operation_id, Current)
    /\ idx' = idx + 1
    /\ UNCHANGED <<fetch, stocks, source, db, pc, batch, tickers,
                   last_trade_id,
                   operations_count, outcome, passes>>

\* the Fee branch without the except clause: the AttributeError of
\* None.add_fee leaves record_operations
DropFee_raises ==
    /\ Executed
    /\ ~sess.pending
    /\ OPERATION_TYPES(Current.operation_type) = "Fee"
    /\ Current.parent_operation_id \notin OperationIds(sess)
    /\ Abort("AttributeError", db)
    /\ UNCHANGED tickers

\* main.py lines 123-132, no parent: None.add_fee raises and is swallowed
DropFee ==
    /\ Executed
    /\ ~sess.pending
    /\ OPERATION_TYPES(Current.operation_type) = "Fee"
    /\ Current.parent_operation_id \notin OperationIds(sess)
    /\ idx' = idx + 1
    /\ UNCHANGED <<fetch, stocks, source, db, sess, pc, batch, tickers,
                   last_trade_id,
                   operations_count, outcome, passes>>

IsTrade(sdk) == OPERATION_TYPES(sdk.operation_type) \in {"Buy", "Sell"}

\* main.py lines 133-143 with the ticker resolved: the query of
\* get_related_position flushes, then the new Operation is added to the
\* session; when its id is already a row the INSERT waits for the next flush
RecordTrade ==
    /\ Executed
    /\ ~sess.pending
    /\ IsTrade(Current)
    /\ Current.figi \in DOMAIN tickers
    /\ sess' = [add_operation(sess,
                              Classified(Current, tickers[Current.figi]))
                    EXCEPT !.pending = Current.id \in OperationIds(sess)]
    /\ operations_count' = operations_count + 1
    /\ idx' = idx + 1
    /\ UNCHANGED <<fetch, stocks, source, db, pc, batch, tickers,
                   last_trade_id, outcome,
                   passes>>

\* the next statement of the pass flushes the session: the query of the
\* Fee branch or of get_related_position, the commit of populate_assets
\* after a lookup that succeeded, or the commit that ends the pass
Flushes ==
    IF idx > Len(batch) THEN TRUE
    ELSE /\ Current.state = EXECUTED_OPERATION
         /\ Current.id # last_trade_id
         /\ OPERATION_TYPES(Current.operation_type) # "None"

\* the INSERT of an Operation whose id is already a row violates the
\* primary key: the flush that sends it raises IntegrityError (or stops
\* with FlushError before sending it, when the row is loaded in the session)
DuplicateKey ==
    /\ pc = "syncing"
    /\ sess.pending
    /\ Flushes
    /\ Abort("IntegrityError", db)
    /\ UNCHANGED tickers

\* main.py lines 134-143: the instrument is looked up, populate_assets
\* commits the session, then the operation is recorded
LookupAndRecordTrade ==
    /\ Executed
    /\ ~sess.pending
    /\ IsTrade(Current)
    /\ Current.figi \notin DOMAIN tickers
    /\ LET instrument == Stock(Current.figi)
           raises == PrimaryKeyConflict(sess, <<instrument>>)
           committed == IF raises THEN db
                        ELSE populate_assets(sess, <<instrument>>)
           ticker == instrument.ticker
       IN  /\ db' = Persisted(committed)
           /\ tickers' = [f \in DOMAIN tickers \cup {Current.figi} |->
                            IF f = Current.figi THEN ticker ELSE tickers[f]]
           /\ IF raises
              THEN /\ sess' = committed
                   /\ pc' = "idle"
                   /\ outcome' = [status |-> "IntegrityError", returned |-> 0]
                   /\ UNCHANGED <<idx, operations_count>>
              ELSE /\ sess' = [add_operation(committed,
                                             Classified(Current, ticker))
                                  EXCEPT !.pending =
                                      Current.id \in OperationIds(committed)]
                   /\ operations_count' = operations_count + 1
                   /\ idx' = idx + 1
                   /\ UNCHANGED <<pc, outcome>>
    /\ UNCHANGED <<fetch, stocks, source, batch, last_trade_id, passes>>

\* main.py line 135: get_instrument_by raises RequestError
LookupFails ==
    /\ Executed
    /\ IsTrade(Current)
    /\ Current.figi \notin DOMAIN tickers
    /\ Abort("RequestError", db)
    /\ UNCHANGED tickers

\* main.py lines 144-145
CommitPass ==
    /\ pc = "syncing"
    /\ idx > Len(batch)
    /\ ~sess.pending
    /\ db' = Persisted(sess)
    /\ pc' = "idle"
    /\ outcome' = [status |-> "ok", returned |-> operations_count]
    /\ UNCHANGED <<fetch, stocks, source, sess, batch, idx, tickers,
                   last_trade_id,
                   operations_count, passes>>

\* deletePosition without the cascade: the position row is deleted and its
\* operations stay in the operation table
DeletePosition_no_cascade ==
    /\ pc = "idle"
    /\ \E position \in PositionIds(db) :
          LET st == [db EXCEPT
                        !.positions = [p \in PositionIds(db) \ {position} |->
                                          db.positions[p]],
                        !.orphans = @ \cup
                            {db.positions[position].operations[i] :
                               i \in 1..Len(db.positions[position].operations)}]
          IN  /\ db' = st
              /\ sess' = st
    /\ UNCHANGED <<fetch, stocks, source, pc, batch, idx, tickers,
                   last_trade_id,
                   operations_count, outcome, passes>>

\* ui.py deletePosition: session.delete(position) and commit; the delete
\* cascades to the operations of the position (cascade="all, delete-orphan")
DeletePosition ==
    /\ pc = "idle"
    /\ \E position \in PositionIds(db) :
          LET st == [db EXCEPT !.positions =
                        [p \in PositionIds(db) \ {position} |->
                            db.positions[p]]]
          IN  /\ db' = st
              /\ sess' = st
    /\ UNCHANGED <<fetch, stocks, source, pc, batch, idx, tickers,
                   last_trade_id,
                   operations_count, outcome, passes>>

Init ==
    /\ source = <<>>
    /\ db = EmptyStore
    /\ sess = EmptyStore
    /\ pc = "idle"
    /\ batch = <<>>
    /\ idx = 1
    /\ tickers = <<>>
    /\ last_trade_id = 0
    /\ operations_count = 0
    /\ outcome = [status |-> "none", returned |-> 0]
    /\ passes = 0
    /\ fetch = NoFetch
    /\ stocks = <<>>

Next ==
    \/ BrokerEmit
    \/ StartPass
    \/ FetchFails
    \/ SkipNotExecuted
    \/ SkipLastTrade
    \/ RecordPayment
    \/ AttachFee
    \/ DropFee
    \/ RecordTrade
    \/ DuplicateKey
    \/ LookupAndRecordTrade
    \/ LookupFails
    \/ CommitPass
    \/ DeletePosition

Spec == Init /\ [][Next]_vars

----------------------------------------------------------------------------
(* FetchSpec: the loop of get_account_operations, one iteration a step.    *)
(* Dates are days; batch_interval 0 stands for None (both are falsy).      *)

\* the histories the broker may hold
FetchSources ==
    UNION {{[i \in 1..n |-> SdkOther(i, dates[i])] :
              dates \in [1..n -> 0..MaxNow]} : n \in 0..MaxFetched}

\* client.operations.get_operations(from_, to): the records of the window
get_operations(from_, to) ==
    SelectSeq(source, LAMBDA o : from_ <= o.date /\ o.date <= to)

\* main.py lines 67-75
FetchInit ==
    /\ source \in FetchSources
    /\ db = EmptyStore
    /\ sess = EmptyStore
    /\ pc = "fetching"
    /\ batch = <<>>
    /\ idx = 1
    /\ tickers = <<>>
    /\ last_trade_id = 0
    /\ operations_count = 0
    /\ outcome = [status |-> "none", returned |-> 0]
    /\ passes = 0
    /\ \E from_date \in 0..MaxNow, to_date \in 0..MaxNow,
          batch_interval \in 0..MaxInterval :
          /\ from_date <= to_date
          /\ fetch =
                [since |-> from_date,
                 from_date |-> from_date,
                 to_date |-> to_date,
                 batch_interval |-> batch_interval,
                 batch_end_date |->
                    IF batch_interval # 0
                    THEN IF from_date + batch_interval > to_date
                         THEN to_date ELSE from_date + batch_interval
                    ELSE to_date,
                 operations |-> <<>>,
                 requests |-> <<>>]
    /\ stocks = <<>>

\* the request of one iteration (main.py lines 77-82)
Requested ==
    [fetch EXCEPT
        !.operations = @ \o get_operations(fetch.from_date,
                                            fetch.batch_end_date),
        !.requests = Append(@, [from_ |-> fetch.from_date,
                                to |-> fetch.batch_end_date])]

\* an iteration whose next window starts one day after the previous end
FetchChunk_skips_day ==
    /\ pc = "fetching"
    /\ fetch.batch_end_date <= fetch.to_date
    /\ fetch.batch_end_date # fetch.to_date
    /\ LET batch_end_date == fetch.batch_end_date + fetch.batch_interval
       IN  fetch' = [Requested EXCEPT
                        !.from_date = fetch.batch_end_date + 1,
                        !.batch_end_date =
                            IF batch_end_date > fetch.to_date
                            THEN fetch.to_date ELSE batch_end_date]
    /\ UNCHANGED <<source, db, sess, pc, batch, idx, tickers, last_trade_id,
                   operations_count, outcome, passes, stocks>>

\* an iteration that goes on to a next window (main.py lines 76-91)
FetchChunk ==
    /\ pc = "fetching"
    /\ fetch.batch_end_date <= fetch.to_date
    /\ fetch.batch_end_date # fetch.to_date
    /\ LET batch_end_date == fetch.batch_end_date + fetch.batch_interval
       IN  fetch' = [Requested EXCEPT
                        !.from_date = fetch.batch_end_date,
                        !.batch_end_date =
                            IF batch_end_date > fetch.to_date
                            THEN fetch.to_date ELSE batch_end_date]
    /\ UNCHANGED <<source, db, sess, pc, batch, idx, tickers, last_trade_id,
                   operations_count, outcome, passes, stocks>>

\* the iteration of the last window: break, and the sorted list is returned
\* (main.py lines 76-85, 93-96)
FetchLast ==
    /\ pc = "fetching"
    /\ fetch.batch_end_date <= fetch.to_date
    /\ fetch.batch_end_date = fetch.to_date
    /\ fetch' = Requested
    /\ batch' = SortByDate(Requested.operations)
    /\ pc' = "fetched"
    /\ UNCHANGED <<source, db, sess, idx, tickers, last_trade_id,
                   operations_count, outcome, passes, stocks>>

FetchNext ==
    \/ FetchChunk
    \/ FetchLast

FetchSpec == FetchInit /\ [][FetchNext]_vars

\* the call runs on: an enabled iteration is eventually executed
FairFetchSpec == FetchSpec /\ WF_vars(FetchNext)

----------------------------------------------------------------------------
(* AssetSpec: Asset.populate_assets called on the asset table, directly    *)
(* and behind the guard of record_operations.                              *)

\* the instrument lists of a call; the empty list stands for no argument
StockLists ==
    UNION {[1..n -> {Stock(f) : f \in AssetFigis}] : n \in 0..MaxStocks}

AssetInit ==
    /\ source = <<>>
    /\ db = EmptyStore
    /\ sess = EmptyStore
    /\ pc = "assets"
    /\ batch = <<>>
    /\ idx = 1
    /\ tickers = <<>>
    /\ last_trade_id = 0
    /\ operations_count = 0
    /\ outcome = [status |-> "none", returned |-> 0]
    /\ passes = 0
    /\ fetch = NoFetch
    /\ stocks = <<>>

\* Asset.populate_assets(client, session, assets_to_add)
PopulateAssets ==
    /\ pc = "assets"
    /\ \E assets_to_add \in StockLists :
          LET st == populate_assets(db, assets_to_add)
          IN  /\ stocks' = stocks_available(assets_to_add)
              /\ db' = st
              /\ sess' = st
              /\ outcome' =
                    [status |-> IF PrimaryKeyConflict(db, assets_to_add)
                                THEN "IntegrityError" ELSE "ok",
                     returned |-> 0]
    /\ UNCHANGED <<source, pc, batch, idx, tickers, last_trade_id,
                   operations_count, passes, fetch>>

\* record_operations lines 100-101: populate_assets behind the guard
PopulateIfEmpty ==
    /\ pc = "assets"
    /\ ~assets_populated(db)
    /\ LET st == populate_assets(db, <<>>)
       IN  /\ stocks' = stocks_available(<<>>)
           /\ db' = st
           /\ sess' = st
           /\ outcome' = [status |-> "ok", returned |-> 0]
    /\ UNCHANGED <<source, pc, batch, idx, tickers, last_trade_id,
                   operations_count, passes, fetch>>

AssetNext ==
    \/ PopulateAssets
    \/ PopulateIfEmpty

AssetSpec == AssetInit /\ [][AssetNext]_vars

----------------------------------------------------------------------------

\* the broker's history is complete before the first pass starts
ResyncEmit ==
    /\ passes = 0
    /\ BrokerEmit

\* updateTrades run again over a source that has nothing new: the passes
\* follow each other, nothing is deleted in between
ResyncNext ==
    \/ ResyncEmit
    \/ StartPass
    \/ FetchFails
    \/ SkipNotExecuted
    \/ SkipLastTrade
    \/ RecordPayment
    \/ AttachFee
    \/ DropFee
    \/ RecordTrade
    \/ DuplicateKey
    \/ LookupAndRecordTrade
    \/ LookupFails
    \/ CommitPass

ResyncSpec == Init /\ [][ResyncNext]_vars

----------------------------------------------------------------------------
(* Definitions shared by the properties *)

Stores == {db, sess}

RECURSIVE SelectValue(_, _)
SelectValue(ops, side) ==
    IF ops = <<>> THEN 0
    ELSE (IF Head(ops).side = side
          THEN Head(ops).quantity * Head(ops).price ELSE 0)
         + SelectValue(Tail(ops), side)

\* the quantity-weighted average price of the operations of one side,
\* rounded to 2 decimals
WeightedAverage(position, side) ==
    RoundDiv(SelectValue(position.operations, side),
             get_operations_quantity(position, side))

OpeningQty(position) == get_operations_quantity(position, position.side)
ClosingQty(position) ==
    get_operations_quantity(position, OppositeSide(position.side))

----------------------------------------------------------------------------
(* C2: a position that has at least one closing leg is closed if and only  *)
(* if the cumulative quantity of its closing-side operations equals the    *)
(* cumulative quantity of its opening-side operations.                     *)
C2_ClosedIffBalanced ==
    \A st \in Stores : \A p \in PositionIds(st) :
        LET position == st.positions[p]
        IN  ClosingQty(position) > 0
                => (position.closed
                        <=> ClosingQty(position) = OpeningQty(position))

(* C8: open_price equals the quantity-weighted average of the prices of    *)
(* all opening-side operations of the position, rounded to 2 decimals.     *)
C8_OpenPriceIsWeightedAverage ==
    \A st \in Stores : \A p \in PositionIds(st) :
        LET position == st.positions[p]
        IN  position.open_price = WeightedAverage(position, position.side)

(* C9: while the cumulative closing-side quantity of a position is smaller *)
(* than its cumulative opening-side quantity, the position is open and     *)
(* closing_price is the quantity-weighted average price of the             *)
(* closing-side operations so far.                                         *)
C9_PartialCloseStaysOpen ==
    \A st \in Stores : \A p \in PositionIds(st) :
        LET position == st.positions[p]
        IN  (0 < ClosingQty(position)
                /\ ClosingQty(position) < OpeningQty(position))
                => /\ ~position.closed
                   /\ position.closing_price =
                        WeightedAverage(position, OppositeSide(position.side))

----------------------------------------------------------------------------
(* Properties of the synchronization driver *)

Tickers == {TickerOf(f) : f \in Figis}

\* the recorded operation with the given id, and the position that owns it
OwnerIds(st, id) ==
    {p \in PositionIds(st) :
        \E i \in 1..Len(st.positions[p].operations) :
            st.positions[p].operations[i].id = id}

OperationById(st, id) == CHOOSE o \in AllOperations(st) : o.id = id

\* the step ends the pass with an exception
Aborted == pc = "syncing" /\ pc' = "idle" /\ outcome'.status # "ok"

(* C1: for every ticker T there is at most one position with ticker = T    *)
(* and closed = false, in the committed store and in the running pass.     *)
C1_OneOpenPositionPerTicker ==
    \A st \in Stores : \A t \in Tickers :
        Cardinality(OpenPositionIds(st, t)) <= 1

\* a ticker with a closed position and a later open one, committed
C1_Witness ==
    \E p, q \in PositionIds(db) :
        /\ p < q
        /\ db.positions[p].ticker = db.positions[q].ticker
        /\ db.positions[p].closed
        /\ ~db.positions[q].closed

OperationIdSeq(position) ==
    [i \in 1..Len(position.operations) |-> position.operations[i].id]

\* the step is a deletePosition
Deletes == pc = "idle" /\ pc' = "idle" /\ PositionIds(db') # PositionIds(db)

KeepsClosed(st, st2) ==
    \A p \in PositionIds(st) :
        (st.positions[p].closed /\ ~(Deletes /\ p \notin PositionIds(st2)))
            => /\ p \in PositionIds(st2)
               /\ st2.positions[p].closed
               /\ OperationIdSeq(st2.positions[p])
                     = OperationIdSeq(st.positions[p])

(* C3: a closed position stays closed and keeps its operations in every    *)
(* later state, and a Buy/Sell operation recorded for a ticker that has no *)
(* open position goes to a newly created position.                         *)
C3_ClosedNeverReopens ==
    [][/\ KeepsClosed(db, db')
       /\ ~Aborted => KeepsClosed(sess, sess')
       /\ \A id \in OperationIds(sess') \ OperationIds(sess) :
             LET t == OperationById(sess', id).ticker
             IN  (~Aborted /\ pc = "syncing" /\ OpenPositionIds(sess, t) = {})
                    => OwnerIds(sess', id) \cap PositionIds(sess) = {}]_vars

\* a closed position of a ticker, followed by a new position of that ticker
C3_Witness ==
    \E p, q \in PositionIds(db) :
        /\ p < q
        /\ db.positions[p].ticker = db.positions[q].ticker
        /\ db.positions[p].closed
        /\ Len(db.positions[q].operations) > 0
        /\ \A i \in 1..Len(db.positions[p].operations) :
              db.positions[p].operations[i].time
                 <= db.positions[q].operations[1].time

(* C4: in a pass over the overlapping window, every already-recorded       *)
(* operation that was fetched again is the one the pass skips, so no       *)
(* operation id is recorded a second time.                                 *)
C4_OverlapIsSkipped ==
    /\ outcome.status # "IntegrityError"
    /\ (InLoop /\ Current.state = EXECUTED_OPERATION /\ IsTrade(Current)
            /\ Current.id \in OperationIds(sess))
          => Current.id = last_trade_id

(* C5: the positions, operations and payments of the committed store       *)
(* change only by the commit at the end of a pass that did not fail, so a  *)
(* pass that fails leaves them as they were before it.                     *)
C5_AllOrNothing ==
    [][((db'.positions # db.positions \/ db'.payments # db.payments)
            /\ ~Deletes)
          => (pc = "syncing" /\ idx > Len(batch) /\ pc' = "idle"
                /\ outcome'.status = "ok")]_vars

\* the Fee branch runs for the current record: the record is an executed
\* Fee and the query for its parent is not stopped by the flush of a
\* duplicate Operation
FeeProcessed ==
    /\ Executed
    /\ ~sess.pending
    /\ OPERATION_TYPES(Current.operation_type) = "Fee"

(* C6: processing an executed Fee whose parent id is the id of a recorded  *)
(* operation sets that operation's fee to the fee amount and increases the *)
(* fee of the position that owns it by the same amount.                    *)
C6_FeeAttached ==
    [][(FeeProcessed /\ Current.parent_operation_id \in OperationIds(sess))
        => LET parent == Current.parent_operation_id
               amount == extract_money_amount(Current.payment)
           IN  /\ parent \in OperationIds(sess')
               /\ OperationById(sess', parent).fee = amount
               /\ \A p \in OwnerIds(sess, parent) :
                     /\ p \in OwnerIds(sess', parent)
                     /\ sess'.positions[p].fee
                           = sess.positions[p].fee + amount]_vars

\* an operation of the pass carries a fee and so does its position
C6_Witness ==
    /\ pc = "syncing"
    /\ \E p \in PositionIds(sess) :
          /\ sess.positions[p].fee # 0
          /\ \E i \in 1..Len(sess.positions[p].operations) :
                sess.positions[p].operations[i].fee
                   = sess.positions[p].fee

Fees(st) ==
    [p \in PositionIds(st) |->
        [fee |-> st.positions[p].fee,
         operations |-> [i \in 1..Len(st.positions[p].operations) |->
                            st.positions[p].operations[i].fee]]]

(* C7: processing an executed Fee whose parent id matches no recorded      *)
(* operation raises nothing, leaves every operation's and position's fee   *)
(* unchanged, and the pass goes on to the next operation.                  *)
C7_UnknownParentIgnored ==
    [][(Executed /\ OPERATION_TYPES(Current.operation_type) = "Fee"
          /\ Current.parent_operation_id \notin OperationIds(sess))
        => /\ Fees(sess') = Fees(sess)
           /\ Fees(db') = Fees(db)
           /\ pc' = "syncing"
           /\ outcome' = outcome
           /\ idx' = idx + 1]_vars

\* the pass has just passed a Fee without a recorded parent and goes on
C7_Witness ==
    /\ pc = "syncing"
    /\ idx > 1
    /\ idx <= Len(batch)
    /\ batch[idx - 1].state = EXECUTED_OPERATION
    /\ OPERATION_TYPES(batch[idx - 1].operation_type) = "Fee"
    /\ batch[idx - 1].parent_operation_id \notin OperationIds(sess)
    /\ AllOperations(sess) # {}

RECURSIVE SumPayments(_)
SumPayments(ops) ==
    IF ops = <<>> THEN 0
    ELSE extract_money_amount(source[Head(ops).id].payment)
         + SumPayments(Tail(ops))

(* C10: each position's result is the sum of the rounded net payments of   *)
(* the operations appended to it, and every recorded operation (one the    *)
(* database has accepted or will accept) is appended to exactly one        *)
(* position, once.                                                         *)
C10_ResultIsSumOfPayments ==
    \A st \in Stores :
        /\ \A p \in PositionIds(st) :
              st.positions[p].result = SumPayments(st.positions[p].operations)
        /\ ~st.pending => \A p, q \in PositionIds(st) :
              \A i \in 1..Len(st.positions[p].operations) :
                 \A j \in 1..Len(st.positions[q].operations) :
                    st.positions[p].operations[i].id
                          = st.positions[q].operations[j].id
                       => (p = q /\ i = j)

\* a committed position with an opening and a closing leg
C10_Witness ==
    \E p \in PositionIds(db) :
        /\ OpeningQty(db.positions[p]) > 0
        /\ ClosingQty(db.positions[p]) > 0
        /\ db.positions[p].result # 0

----------------------------------------------------------------------------
(* C11: the value a pass returns is the number of Buy/Sell Operation rows  *)
(* it has newly recorded: the counter starts at 0, grows by one exactly    *)
(* with each new row of the operation table, stays as it is on a Fee, an   *)
(* other payment, a non-executed record and the skipped overlap, and is    *)
(* what the commit returns (the executed Buy/Sell records of the batch     *)
(* other than the skipped one, all of them rows of the committed store).   *)
C11_ReturnsRecordedTrades ==
    [][/\ (pc = "idle" /\ pc' = "syncing") => operations_count' = 0
       /\ (pc = "syncing" /\ pc' = "syncing")
            => /\ ~sess'.pending
                    => operations_count' - operations_count
                         = Cardinality(OperationIds(sess')
                                          \ OperationIds(sess))
               /\ ~(Executed /\ IsTrade(Current))
                    => operations_count' = operations_count
       /\ (pc = "syncing" /\ pc' = "idle" /\ outcome'.status = "ok")
            => LET counted == {i \in 1..Len(batch) :
                                 /\ batch[i].state = EXECUTED_OPERATION
                                 /\ IsTrade(batch[i])
                                 /\ batch[i].id # last_trade_id}
               IN  /\ outcome'.returned = operations_count
                   /\ outcome'.returned = Cardinality(counted)
                   /\ \A i \in counted :
                         batch[i].id \in OperationIds(db')]_vars

\* a committed pass over a trade, its fee and another payment returned 1
C11_Witness ==
    /\ pc = "idle"
    /\ outcome = [status |-> "ok", returned |-> 1]
    /\ \E i, j \in 1..Len(batch) :
          /\ batch[i].state = EXECUTED_OPERATION
          /\ OPERATION_TYPES(batch[i].operation_type) = "Fee"
          /\ batch[i].parent_operation_id \in OperationIds(db)
          /\ batch[j].state = EXECUTED_OPERATION
          /\ OPERATION_TYPES(batch[j].operation_type) = "None"
    /\ db.payments # <<>>
    /\ \E p \in PositionIds(db) : db.positions[p].fee # 0

(* C12: a record that is not in the executed state is passed over whatever *)
(* its type: positions, operations, fees, payments and the counter stay as *)
(* they are, nothing is raised and the pass goes on to the next record.    *)
C12_NotExecutedIgnored ==
    [][(InLoop /\ Current.state # EXECUTED_OPERATION)
        => /\ sess' = sess
           /\ db' = db
           /\ operations_count' = operations_count
           /\ tickers' = tickers
           /\ pc' = "syncing"
           /\ outcome' = outcome
           /\ idx' = idx + 1]_vars

\* the pass has just passed a non-executed Fee that names a recorded
\* operation, whose fee is still 0
C12_Witness ==
    /\ pc = "syncing"
    /\ idx > 1
    /\ batch[idx - 1].state # EXECUTED_OPERATION
    /\ OPERATION_TYPES(batch[idx - 1].operation_type) = "Fee"
    /\ batch[idx - 1].parent_operation_id \in OperationIds(sess)
    /\ OperationById(sess, batch[idx - 1].parent_operation_id).fee = 0

(* C13: an executed record whose type is none of Buy, Sell, BrokerFee adds *)
(* exactly one payment (ticker or none, description, currency, amount) and *)
(* leaves every position and operation as it is; the payment carries no    *)
(* reference to a position.                                                *)
C13_OtherPaymentRecorded ==
    [][(Executed /\ OPERATION_TYPES(Current.operation_type) = "None")
        => /\ sess'.payments = Append(sess.payments,
                  [ticker |-> TickerGet(Current.figi),
                   description |-> Current.type,
                   currency |-> Current.currency,
                   payment |-> extract_money_amount(Current.payment)])
           /\ sess'.positions = sess.positions
           /\ sess'.orphans = sess.orphans
           /\ db' = db
           /\ operations_count' = operations_count
           /\ pc' = "syncing"
           /\ idx' = idx + 1]_vars

\* a committed payment next to a committed position
C13_Witness ==
    /\ Len(db.payments) = 1
    /\ db.payments[1].payment = 700
    /\ db.payments[1].description = "Coupons"
    /\ PositionIds(db) # {}

(* C14: the money normalizer returns units + nano * 1e-9 rounded to 2      *)
(* decimals, also for negative units with a positive nano: (7, 250000000)  *)
(* gives 7.25, (10, 500000000) gives 10.50 and (-1, 500000000) gives       *)
(* -0.50.  The value returned is a nearest number of cents; from 2^22      *)
(* units on, where the double of the sum is coarser than a nano, it is     *)
(* the nearest cent of a value at most 2 nanos from the sum.               *)
C14_MoneyNormalized ==
    (pc = "normalized" /\ "float" \notin DOMAIN batch[idx].payment)
        => LET m == batch[idx].payment
               cents == outcome.returned
               off == m.nano - (cents - m.units * 100) * 10000000
               coarse == IF Abs(m.units) < 4194304 THEN 0 ELSE 2
           IN  /\ off <= 5000000 + coarse
               /\ -off <= 5000000 + coarse
               /\ m = [units |-> 7, nano |-> 250000000] => cents = 725
               /\ m = [units |-> 10, nano |-> 500000000] => cents = 1050
               /\ m = [units |-> -1, nano |-> 500000000] => cents = -50

\* negative units with a positive nano have been normalized
C14_Witness ==
    /\ pc = "normalized"
    /\ batch[idx].payment = [units |-> -1, nano |-> 500000000]
    /\ outcome.returned = -50

SameButFee(o1, o2) == [o1 EXCEPT !.fee = 0] = [o2 EXCEPT !.fee = 0]

\* every id is one row of the operation table, owned by one position
OneRowPerId(st) ==
    /\ \A o1, o2 \in AllOperations(st) : o1.id = o2.id => o1 = o2
    /\ \A p, q \in PositionIds(st) :
          \A i \in 1..Len(st.positions[p].operations) :
             \A j \in 1..Len(st.positions[q].operations) :
                st.positions[p].operations[i].id
                      = st.positions[q].operations[j].id
                   => (p = q /\ i = j)

\* the operations of st that are still rows in st2 have the same id,
\* ticker, side, time, quantity, price and owner there
KeepsOperations(st, st2) ==
    \A id \in OperationIds(st) \cap OperationIds(st2) :
        /\ SameButFee(OperationById(st, id), OperationById(st2, id))
        /\ OwnerIds(st2, id) = OwnerIds(st, id)

(* C15: a recorded operation is one row, created once; no later step       *)
(* changes its id, ticker, side, time, quantity, price or owning position, *)
(* and in a pass its fee changes only in the step that processes a Fee     *)
(* naming it as parent.  (A session that holds a duplicate the database    *)
(* will refuse has not recorded it.)                                       *)
C15_OperationImmutable ==
    [][/\ OneRowPerId(db')
       /\ KeepsOperations(db, db')
       /\ ~sess'.pending => OneRowPerId(sess')
       /\ (~Aborted /\ ~sess'.pending) => KeepsOperations(sess, sess')
       /\ (pc = "syncing" /\ pc' = "syncing" /\ ~sess'.pending)
            => \A id \in OperationIds(sess) :
                  OperationById(sess', id).fee # OperationById(sess, id).fee
                     => /\ Executed
                        /\ OPERATION_TYPES(Current.operation_type) = "Fee"
                        /\ Current.parent_operation_id = id]_vars

\* a position of the pass with two operations, one carrying a fee and the
\* other none
C15_Witness ==
    /\ pc = "syncing"
    /\ \E p \in PositionIds(sess) :
          \E i, j \in 1..Len(sess.positions[p].operations) :
              /\ sess.positions[p].operations[i].fee # 0
              /\ sess.positions[p].operations[j].fee = 0

(* C16: deletePosition removes the position and all operations it owns:    *)
(* afterwards the operation table holds no row of the deleted position     *)
(* (none is left without its position), the other positions are as they    *)
(* were, and the lookup of a Fee's parent among the removed ids finds      *)
(* nothing.                                                                *)
C16_DeleteRemovesOperations ==
    [][/\ Deletes
          => LET gone == PositionIds(db) \ PositionIds(db')
                 removed == UNION {{db.positions[p].operations[i].id :
                                      i \in 1..Len(db.positions[p].operations)}
                                   : p \in gone}
             IN  /\ Cardinality(gone) = 1
                 /\ PositionIds(db') \subseteq PositionIds(db)
                 /\ \A p \in PositionIds(db') :
                       db'.positions[p] = db.positions[p]
                 /\ OperationIds(db') = OperationIds(db) \ removed
                 /\ \A id \in removed, u \in FeeUnits :
                       add_fee(db', id, SdkFee(0, 0, id, u)) = db'
       /\ db'.orphans = {} /\ sess'.orphans = {}]_vars

\* the pass after a deletion has just dropped a Fee whose parent is a trade
\* the first pass recorded, outside the window of this pass
C16_Witness ==
    /\ passes = 2
    /\ pc = "syncing"
    /\ outcome.status = "ok"
    /\ outcome.returned =
          Cardinality({i \in 1..Len(source) :
                          /\ source[i].state = EXECUTED_OPERATION
                          /\ IsTrade(source[i])})
    /\ idx > 1
    /\ batch[idx - 1].state = EXECUTED_OPERATION
    /\ OPERATION_TYPES(batch[idx - 1].operation_type) = "Fee"
    /\ LET parent == batch[idx - 1].parent_operation_id
       IN  /\ parent \in 1..Len(source)
           /\ source[parent].state = EXECUTED_OPERATION
           /\ IsTrade(source[parent])
           /\ parent \notin OperationIds(sess)
           /\ \A i \in 1..Len(batch) : batch[i].id # parent

(* C18: when a Fee names a parent operation that already carries a fee,    *)
(* the operation's fee becomes the new amount (the old fee is replaced,    *)
(* not added to), and the fee of the owning position grows by the new      *)
(* amount as it did by the first.                                          *)
C18_SecondFeeReplaces ==
    [][(/\ FeeProcessed
        /\ Current.parent_operation_id \in OperationIds(sess)
        /\ OperationById(sess, Current.parent_operation_id).fee # 0)
        => LET parent == Current.parent_operation_id
               amount == extract_money_amount(Current.payment)
               before == OperationById(sess, parent).fee
           IN  /\ OperationById(sess', parent).fee = amount
               /\ OperationById(sess', parent).fee # before + amount
               /\ \A p \in OwnerIds(sess, parent) :
                     sess'.positions[p].fee
                        = sess.positions[p].fee + amount]_vars

\* one operation that got a fee of 3.00 and then one of 5.00: it carries
\* 5.00 and its position 8.00
C18_Witness ==
    /\ pc = "syncing"
    /\ \E p \in PositionIds(sess) :
          /\ Len(sess.positions[p].operations) = 1
          /\ sess.positions[p].operations[1].fee = -500
          /\ sess.positions[p].fee = -800

(* C17: an executed Buy/Sell whose instrument is not in the asset table is *)
(* looked up once; it is then either recorded under the resolved ticker,   *)
(* or, if the ticker is still unresolved, ignored: no position or          *)
(* operation changes, the counter stays, nothing is raised and the pass    *)
(* goes on to the next record.                                             *)
C17_UnresolvedIgnored ==
    [][(Executed /\ IsTrade(Current) /\ Current.figi \notin DOMAIN tickers)
        => \/ /\ Current.figi \in DOMAIN tickers'
              /\ Current.id \in OperationIds(sess')
              /\ operations_count' = operations_count + 1
              /\ pc' = "syncing"
              /\ idx' = idx + 1
           \/ /\ sess'.positions = sess.positions
              /\ operations_count' = operations_count
              /\ pc' = "syncing"
              /\ outcome' = outcome
              /\ idx' = idx + 1]_vars

----------------------------------------------------------------------------
(* Arrival order within a side *)

Permutations(n) ==
    {f \in [1..n -> 1..n] : \A i, j \in 1..n : f[i] = f[j] => i = j}

SideOperations(position, side) ==
    SelectSeq(position.operations, LAMBDA o : o.side = side)

\* the position after Position.update has processed the first k of the
\* operations ops, taken in the order f, starting from a new position
RECURSIVE Replayed(_, _, _, _)
Replayed(position, ops, f, k) ==
    IF k = 0
    THEN [position EXCEPT !.operations = <<>>, !.open_price = 0,
                          !.closing_price = 0, !.closed = FALSE,
                          !.result = 0]
    ELSE LET before == Replayed(position, ops, f, k - 1)
             operation == ops[f[k]]
         IN  update([before EXCEPT !.operations = Append(@, operation)],
                    operation, 0)

(* C19: for the operations of one side of a position, every order of       *)
(* processing them yields the open_price (opening side) and the            *)
(* closing_price (closing side) the position has after processing them in  *)
(* the order of arrival.                                                   *)
C19_OrderInsensitive ==
    \A p \in PositionIds(db) :
        LET position == db.positions[p]
            opening == SideOperations(position, position.side)
            closing == SideOperations(position, OppositeSide(position.side))
        IN  /\ \A f \in Permutations(Len(opening)) :
                  Replayed(position, opening, f, Len(opening)).open_price
                     = position.open_price
            /\ \A f \in Permutations(Len(closing)) :
                  Replayed(position, closing, f, Len(closing)).closing_price
                     = position.closing_price

(* C20: a Buy/Sell recorded for a ticker without an open position creates  *)
(* a position with the operation's side, ticker and currency, not closed,  *)
(* fee 0 and the operation as its only operation; result is 0 plus the     *)
(* operation's payment, the same-side quantity is the operation's          *)
(* quantity (not zero) and open_price is the operation's price.            *)
C20_FirstLegOpensPosition ==
    [][\A id \in OperationIds(sess') \ OperationIds(sess) :
          LET operation == OperationById(sess', id)
          IN  (pc = "syncing" /\ ~Aborted
                 /\ OpenPositionIds(sess, operation.ticker) = {})
                => /\ Current.id = id
                   /\ \E p \in PositionIds(sess') \ PositionIds(sess) :
                         LET position == sess'.positions[p]
                         IN  /\ OwnerIds(sess', id) = {p}
                             /\ position.operations = <<operation>>
                             /\ position.ticker = operation.ticker
                             /\ position.side
                                   = OPERATION_TYPES(Current.operation_type)
                             /\ position.currency = Current.currency
                             /\ ~position.closed
                             /\ position.fee = 0
                             /\ position.result
                                   = 0 + extract_money_amount(Current.payment)
                             /\ OpeningQty(position) = Current.quantity
                             /\ OpeningQty(position) > 0
                             /\ position.open_price
                                   = extract_money_amount(Current.price)
                             /\ position.closing_price = 0]_vars

\* a committed short position in usd with its first leg only
C20_Witness ==
    \E p \in PositionIds(db) :
        /\ Len(db.positions[p].operations) = 1
        /\ db.positions[p].side = "Sell"
        /\ db.positions[p].currency = "usd"
        /\ db.positions[p].open_price = db.positions[p].operations[1].price
        /\ ~db.positions[p].closed

----------------------------------------------------------------------------
(* C21: the list a pass works on is in non-decreasing order of timestamp   *)
(* whatever the order of the broker's list, and the pass goes through it   *)
(* one record after the other: no record is applied before a record of     *)
(* the pass with a strictly earlier timestamp.                             *)
C21_TimestampOrder ==
    [][pc' = "syncing"
        => /\ \A i, j \in 1..Len(batch') :
                 i < j => batch'[i].date <= batch'[j].date
           /\ pc = "syncing" => (batch' = batch /\ idx' = idx + 1)]_vars

\* a pass has gone through a list of three that the broker holds in
\* another order
C21_Witness ==
    /\ pc = "syncing"
    /\ idx > Len(batch)
    /\ Len(batch) = 3
    /\ \E i, j \in 1..Len(source) :
          /\ i < j
          /\ source[i].date > source[j].date
          /\ \E k, l \in 1..Len(batch) :
                k > l /\ batch[k] = source[i] /\ batch[l] = source[j]

(* C24: every open position has a cumulative closing-side quantity         *)
(* strictly smaller than its cumulative opening-side quantity, also after  *)
(* a closing-side operation larger than what was still open and after      *)
(* opening-side operations that follow it.                                 *)
C24_OpenMeansUnderfilled ==
    \A st \in Stores : \A p \in PositionIds(st) :
        LET position == st.positions[p]
        IN  ~position.closed => ClosingQty(position) < OpeningQty(position)

RECURSIVE SumFees(_)
SumFees(ops) ==
    IF ops = <<>> THEN 0 ELSE Head(ops).fee + SumFees(Tail(ops))

\* each Fee record of the broker names a parent of its own
DistinctParents ==
    \A i, j \in 1..Len(source) :
        (/\ i # j
         /\ OPERATION_TYPES(source[i].operation_type) = "Fee"
         /\ OPERATION_TYPES(source[j].operation_type) = "Fee")
            => source[i].parent_operation_id # source[j].parent_operation_id

(* C25: when each Fee record names a parent of its own, the fee of every   *)
(* position is the sum of the fees of the operations it owns, after any    *)
(* sequence of passes, overlapping at the watermark or not.                *)
C25_FeeTotalIsSumOfFees ==
    DistinctParents
        => \A st \in Stores : \A p \in PositionIds(st) :
              st.positions[p].fee = SumFees(st.positions[p].operations)

(* C27: at the end of the loop of a pass, every operation the pass has     *)
(* recorded carries the fee of an executed Fee of the same batch that      *)
(* names it as parent, wherever the Fee stands in the broker's list.       *)
C27_FeeInBatchAttached ==
    (pc = "syncing" /\ idx > Len(batch) /\ ~sess.pending)
        => \A i, j \in 1..Len(batch) :
              (/\ batch[i].state = EXECUTED_OPERATION
               /\ OPERATION_TYPES(batch[i].operation_type) = "Fee"
               /\ batch[j].state = EXECUTED_OPERATION
               /\ IsTrade(batch[j])
               /\ batch[j].id = batch[i].parent_operation_id
               /\ batch[j].id # last_trade_id
               /\ batch[j].id \in OperationIds(sess))
                 => OperationById(sess, batch[j].id).fee
                       \in {extract_money_amount(batch[k].payment) :
                              k \in {l \in 1..Len(batch) :
                                 /\ batch[l].state = EXECUTED_OPERATION
                                 /\ OPERATION_TYPES(batch[l].operation_type)
                                       = "Fee"
                                 /\ batch[l].parent_operation_id
                                       = batch[j].id}}

(* C28: attaching a Fee changes the fee of the parent operation and the    *)
(* fee of the position that owns it, whether that position is open or      *)
(* closed, and nothing else: closed, open_price, closing_price, result,    *)
(* side and the operations of every position stay, no position and no      *)
(* payment is created.                                                     *)
C28_FeeChangesOnlyFees ==
    [][(FeeProcessed /\ Current.parent_operation_id \in OperationIds(sess))
        => LET parent == Current.parent_operation_id
               amount == extract_money_amount(Current.payment)
           IN  /\ PositionIds(sess') = PositionIds(sess)
               /\ sess'.payments = sess.payments
               /\ sess'.orphans = sess.orphans
               /\ db' = db
               /\ \A p \in PositionIds(sess) :
                     LET before == sess.positions[p]
                         after == sess'.positions[p]
                     IN  IF p \notin OwnerIds(sess, parent)
                         THEN after = before
                         ELSE /\ [after EXCEPT !.fee = 0, !.operations = <<>>]
                                  = [before EXCEPT !.fee = 0,
                                                   !.operations = <<>>]
                              /\ after.fee = before.fee + amount
                              /\ Len(after.operations)
                                    = Len(before.operations)
                              /\ \A i \in 1..Len(before.operations) :
                                    IF before.operations[i].id = parent
                                    THEN /\ SameButFee(after.operations[i],
                                                       before.operations[i])
                                         /\ after.operations[i].fee = amount
                                    ELSE after.operations[i]
                                            = before.operations[i]]_vars

\* the pass has just attached a Fee to an operation of a closed position
C28_Witness ==
    /\ pc = "syncing"
    /\ idx > 1
    /\ batch[idx - 1].state = EXECUTED_OPERATION
    /\ batch[idx - 1].id # last_trade_id
    /\ OPERATION_TYPES(batch[idx - 1].operation_type) = "Fee"
    /\ \E p \in OwnerIds(sess, batch[idx - 1].parent_operation_id) :
          /\ sess.positions[p].closed
          /\ sess.positions[p].fee # 0
          /\ sess.positions[p].closing_price # 0

(* C29: recording a Buy/Sell of ticker T changes one position, the open    *)
(* position of T or a new position of T: every position of another ticker *)
(* and every closed position of T keeps all its fields and operations.     *)
C29_TradeChangesOnlyOpenPosition ==
    [][(pc = "syncing" /\ ~Aborted
          /\ OperationIds(sess') # OperationIds(sess))
        => LET ticker == OperationById(sess', Current.id).ticker
               touched == {p \in PositionIds(sess') :
                              \/ p \notin PositionIds(sess)
                              \/ sess'.positions[p] # sess.positions[p]}
           IN  /\ PositionIds(sess) \subseteq PositionIds(sess')
               /\ \A p \in PositionIds(sess) :
                     (sess.positions[p].ticker # ticker
                         \/ sess.positions[p].closed)
                       => sess'.positions[p] = sess.positions[p]
               /\ Cardinality(touched) = 1
               /\ \A p \in touched :
                     /\ sess'.positions[p].ticker = ticker
                     /\ p \in OwnerIds(sess', Current.id)
                     /\ p \in PositionIds(sess) => ~sess.positions[p].closed
               /\ sess'.payments = sess.payments]_vars

\* the pass has just recorded a trade of a ticker that has a closed
\* position, in a new position
C29_Witness ==
    /\ pc = "syncing"
    /\ idx > 1
    /\ batch[idx - 1].state = EXECUTED_OPERATION
    /\ IsTrade(batch[idx - 1])
    /\ batch[idx - 1].id # last_trade_id
    /\ \E p, q \in PositionIds(sess) :
          /\ p # q
          /\ sess.positions[p].closed
          /\ sess.positions[p].ticker = sess.positions[q].ticker
          /\ OwnerIds(sess, batch[idx - 1].id) = {q}
          /\ Len(sess.positions[q].operations) = 1

(* C26: a second pass that starts at the time of the most recently         *)
(* recorded operation, over a source that holds only what the first pass   *)
(* has processed, leaves every position, every operation and the payments  *)
(* as the first pass committed them and returns 0.                         *)
C26_ResyncIdempotent ==
    (/\ pc = "syncing"
     /\ idx > Len(batch)
     /\ ~sess.pending
     /\ passes = 2
     /\ outcome.status = "ok"
     /\ last_trade_id # 0)
        => /\ sess.positions = db.positions
           /\ sess.payments = db.payments
           /\ operations_count = 0

\* the windows requested so far follow each other from since on
Contiguous ==
    /\ fetch.requests # <<>> => fetch.requests[1].from_ = fetch.since
    /\ \A i \in 1..(Len(fetch.requests) - 1) :
          fetch.requests[i + 1].from_ = fetch.requests[i].to

(* C22: for since <= now and a positive batch interval the loop of         *)
(* get_account_operations ends; the windows it requests start at since,    *)
(* end at now and each starts where the previous one ended, so every       *)
(* record of the source dated in [since, now] is in the returned list;     *)
(* without a batch interval the one window [since, now] is requested.      *)
C22_ChunkedFetch ==
    /\ [](pc = "fetching"
            => Contiguous /\ fetch.batch_end_date <= fetch.to_date)
    /\ [](pc = "fetched"
            => /\ Contiguous
               /\ fetch.requests # <<>>
               /\ fetch.requests[Len(fetch.requests)].to = fetch.to_date
               /\ \A i \in 1..Len(source) :
                     (fetch.since <= source[i].date
                         /\ source[i].date <= fetch.to_date)
                       => \E k \in 1..Len(batch) : batch[k] = source[i]
               /\ \A k \in 1..Len(batch) :
                     /\ fetch.since <= batch[k].date
                     /\ batch[k].date <= fetch.to_date
               /\ fetch.batch_interval = 0
                     => fetch.requests = <<[from_ |-> fetch.since,
                                            to |-> fetch.to_date]>>)
    /\ <>(pc = "fetched")

\* a call with an interval that does not divide the window has returned:
\* two windows, the second cut at now, a record fetched in the second and
\* a record older than since in the source
C22_Witness ==
    /\ pc = "fetched"
    /\ fetch.batch_interval = 2
    /\ fetch.since > 0
    /\ Len(fetch.requests) = 2
    /\ fetch.requests[2].to - fetch.requests[2].from_ = 1
    /\ \E k \in 1..Len(batch) : batch[k].date > fetch.requests[1].to
    /\ \E i \in 1..Len(source) : source[i].date < fetch.since

\* no two rows of the asset table have the same ticker
UniqueTickers(st) ==
    \A i, j \in 1..Len(st.assets) :
        i # j => st.assets[i].ticker # st.assets[j].ticker

(* C23 as stated: populate_assets called a second time with the list of    *)
(* the previous call inserts the records a second time.                    *)
C23_SecondCallDuplicates ==
    [][(pc = "assets" /\ outcome.status = "ok" /\ stocks' = stocks)
        => db'.assets = db.assets \o stocks]_vars

(* C23, amended: populate_assets is not an upsert, and it does not         *)
(* duplicate: a call whose list holds a ticker that is a row of the table  *)
(* (a second call with the same list in particular) or holds a ticker      *)
(* twice raises IntegrityError and adds nothing; any other call appends    *)
(* its records; the table never holds two rows of one ticker.              *)
C23_SecondCallRaises ==
    [][pc = "assets"
        => /\ UniqueTickers(db')
           /\ IF \/ \E i \in 1..Len(stocks'), j \in 1..Len(db.assets) :
                      stocks'[i].ticker = db.assets[j].ticker
                 \/ \E i, j \in 1..Len(stocks') :
                      i # j /\ stocks'[i].ticker = stocks'[j].ticker
              THEN /\ db'.assets = db.assets
                   /\ outcome'.status = "IntegrityError"
              ELSE /\ db'.assets = db.assets \o stocks'
                   /\ outcome'.status = "ok"
           /\ (outcome.status = "ok" /\ stocks' = stocks)
                 => (db'.assets = db.assets
                       /\ outcome'.status = "IntegrityError")]_vars

\* the second call with the list of two instruments that filled the table
\* has raised
C23_Witness ==
    /\ pc = "assets"
    /\ outcome.status = "IntegrityError"
    /\ Len(stocks) = 2
    /\ db.assets = stocks

====
